---- MODULE Spec2Model ----
(***************************************************************************)
(* Model of main.py: the multi-library PII redaction script.               *)
(*                                                                         *)
(* Text is a sequence of tokens.  A token is one character of the input    *)
(* ("e" an e-mail address, "n" a person name, "!" a character a fragile   *)
(* library chokes on, "\n" the line boundary) or a literal the program or  *)
(* a library inserts ("[PRESIDIO NOT AVAILABLE] ", "<PERSON>").            *)
(* The three libraries are external; they are represented by fixed         *)
(* stand-ins that replace the tokens they detect, and by a fault           *)
(* environment (fragile) that says which of their functions raise.         *)
(* The output file is written through the two buffers of Python's text     *)
(* file: outbuf is the text outfile.write accepted and the text layer       *)
(* holds, rawbuf what the text layer handed to the byte layer and the byte *)
(* layer holds, outfile what is on disk.  The disk accepts diskSpace bytes *)
(* for the output file: a write to it stores what fits, and a write to a   *)
(* full disk raises.  The operator-facing output accepts every print.      *)
(***************************************************************************)
EXTENDS Integers, Sequences, FiniteSets, TLC

VARIABLES
    pc,               \* control position of the script
    fileExists,       \* the input path names a file
    existsRaises,     \* input_path.exists() raises: the OS rejects the name
    fileContent,      \* the input file's text
    sameFile,         \* the output path names the input file
    fragile,          \* library function -> it raises on a text holding "!"
    diskSpace,        \* bytes the disk accepts for the output file
    scrubadub_ready,  \* self.scrubadub_ready
    presidio_ready,   \* self.presidio_ready
    pii_codex_ready,  \* self.pii_codex_ready
    infileOpen,       \* the input handle is open
    outfileOpen,      \* the output handle is open
    outOnDisk,        \* the output file exists on disk
    outfile,          \* the output file's text, on disk
    outfileBytes,     \* its size in bytes
    rawbuf,           \* text in the byte layer's buffer, not yet on disk
    rawbufBytes,      \* its size in bytes
    outbuf,           \* text accepted by outfile.write, held by the text layer
    outbufBytes,      \* its size in bytes
    writes,           \* the texts handed to outfile.write, one per call
    inpos,            \* tokens of the input consumed by the iteration
    line_num,         \* enumerate(infile, 1)
    line_count,       \* non-empty lines processed
    stdout,           \* what print() wrote, one record per call
    calls,            \* library calls made, in order
    opens,            \* open() calls made, in order
    fault,            \* the file-level error that hit the run, or "none"
    ret,              \* what process_file returned: "None" while it has not
    exitCode          \* the process's exit status; -1 while it runs

vars == <<pc, fileExists, existsRaises, fileContent, sameFile, fragile, diskSpace,
          scrubadub_ready, presidio_ready, pii_codex_ready, infileOpen,
          outfileOpen, outOnDisk, outfile, outfileBytes, rawbuf, rawbufBytes,
          outbuf, outbufBytes,
          writes, inpos, line_num,
          line_count, stdout, calls, opens, fault, ret, exitCode>>

envVars == <<fileExists, existsRaises, fileContent, sameFile, fragile, diskSpace>>
flagVars == <<scrubadub_ready, presidio_ready, pii_codex_ready>>
bufVars == <<rawbuf, rawbufBytes, outbuf, outbufBytes>>
fileVars == <<infileOpen, outfileOpen, outOnDisk, outfile, outfileBytes, bufVars,
              writes, opens>>
loopVars == <<inpos, line_num, line_count, calls>>

----------------------------------------------------------------------------
(* Bounds *)

MaxLen == 3
BigLines == 250
MaxBig == 6

(* Program constants *)

ProgressEvery == 100
\* Bytes the text file opened by open(output_path, "w") collects before it
\* hands them to its byte layer (the chunk size of Python's text layer).
BufferBytes == 8192
\* The size of the byte layer's buffer: the block size of the file system.
BlockBytes == 4096

----------------------------------------------------------------------------
(* Text *)

NL == "\n"
Chars == {"e", "n", "!"}
Alphabet == Chars \cup {NL}
Functions == {"scrubadub.clean", "presidio.analyze", "presidio.anonymize",
              "pii_codex.redact"}
\* str(e) of the exception a library raises: it names what it choked on.
ErrMsg == <<"cannot parse ", "n">>

\* What is left on disk of a token the disk had no room for as a whole.
Partial == "<part of a token>"

\* The UTF-8 length of a token: "e" is an address of six bytes ("a@b.co"),
\* "n" a name of four, "t" a stretch of 3000 bytes of text that holds nothing
\* to redact, the literals are as long as they are written.
ByteLen(token) ==
    CASE token = NL -> 1
      [] token = "t" -> 3000
      [] token = "e" -> 6
      [] token = "n" -> 4
      [] token = "!" -> 1
      [] token = "old" -> 3
      [] token = "{{EMAIL}}" -> 9
      [] token = "<EMAIL_ADDRESS>" -> 15
      [] token = "<PERSON>" -> 8
      [] token = "***" -> 3
      [] token = "[SCRUBADUB ERROR: " -> 18
      [] token = "[PRESIDIO ERROR: " -> 17
      [] token = "[PII-CODEX ERROR: " -> 18
      [] token = "cannot parse " -> 13
      [] token = "] " -> 2
      [] token = "[PRESIDIO NOT AVAILABLE] " -> 25
      [] token = "[PII-CODEX NOT AVAILABLE] " -> 26
      [] token = Partial -> 1

\* The bytes of tokens lo..hi of a text.
RECURSIVE BytesIn(_, _, _)
BytesIn(text, lo, hi) ==
    IF lo > hi THEN 0
    ELSE IF lo = hi THEN ByteLen(text[lo])
    ELSE LET mid == (lo + hi) \div 2
         IN BytesIn(text, lo, mid) + BytesIn(text, mid + 1, hi)
Bytes(text) == BytesIn(text, 1, Len(text))

Range(s) == {s[i] : i \in 1..Len(s)}
Min(S) == CHOOSE x \in S : \A y \in S : x <= y
MapText(f(_), text) == [i \in 1..Len(text) |-> f(text[i])]

Texts(n) == UNION {[1..k -> Alphabet] : k \in 0..n}

\* The text of lines lo..hi of a file whose lines in `blanks` are empty and
\* whose other lines hold one e-mail address.
RECURSIVE LongLines(_, _, _)
LongLines(lo, hi, blanks) ==
    IF lo > hi THEN <<>>
    ELSE IF lo = hi THEN (IF lo \in blanks THEN <<NL>> ELSE <<"e", NL>>)
    ELSE LET mid == (lo + hi) \div 2
         IN LongLines(lo, mid, blanks) \o LongLines(mid + 1, hi, blanks)
LongInput(n, blanks) == LongLines(1, n, blanks)

\* next(infile): the tokens after pos up to and including the next newline,
\* or up to the end of the file when no newline is left.
ReadLine(content, pos) ==
    LET ends == {i \in (pos + 1)..Len(content) : content[i] = NL}
        last == IF ends = {} THEN Len(content) ELSE Min(ends)
    IN SubSeq(content, pos + 1, last)

\* line.rstrip("\n")
RECURSIVE RStripNL(_)
RStripNL(line) ==
    IF line # <<>> /\ line[Len(line)] = NL
    THEN RStripNL(SubSeq(line, 1, Len(line) - 1))
    ELSE line

----------------------------------------------------------------------------
(* The external libraries *)

Raises(function, text) == fragile[function] /\ "!" \in Range(text)

ScrubToken(t) == IF t = "e" THEN "{{EMAIL}}" ELSE t
ScrubadubClean(text) == MapText(ScrubToken, text)

PresidioAnalyze(text) == {i \in 1..Len(text) : text[i] \in {"e", "n"}}
PresidioToken(t) ==
    IF t = "e" THEN "<EMAIL_ADDRESS>" ELSE IF t = "n" THEN "<PERSON>" ELSE t
PresidioAnonymize(text, results) ==
    [i \in 1..Len(text) |-> IF i \in results THEN PresidioToken(text[i]) ELSE text[i]]

CodexToken(t) == IF t \in {"e", "n"} THEN "***" ELSE t
CodexRedact(text) == MapText(CodexToken, text)

----------------------------------------------------------------------------
(* MultiRedactor *)

\* Faulty variant: the error tag replaces the text instead of preceding it.
redact_with_scrubadub_DropsText(text) ==
    IF Raises("scrubadub.clean", text)
    THEN <<"[SCRUBADUB ERROR: ">> \o ErrMsg \o <<"] ">>
    ELSE ScrubadubClean(text)

redact_with_scrubadub(text) ==
    IF Raises("scrubadub.clean", text)
    THEN <<"[SCRUBADUB ERROR: ">> \o ErrMsg \o <<"] ">> \o text
    ELSE ScrubadubClean(text)

redact_with_presidio(text) ==
    IF ~presidio_ready
    THEN <<"[PRESIDIO NOT AVAILABLE] ">> \o text
    ELSE IF Raises("presidio.analyze", text)
    THEN <<"[PRESIDIO ERROR: ">> \o ErrMsg \o <<"] ">> \o text
    ELSE IF PresidioAnalyze(text) # {}
    THEN IF Raises("presidio.anonymize", text)
         THEN <<"[PRESIDIO ERROR: ">> \o ErrMsg \o <<"] ">> \o text
         ELSE PresidioAnonymize(text, PresidioAnalyze(text))
    ELSE text

redact_with_pii_codex(text) ==
    IF ~pii_codex_ready
    THEN <<"[PII-CODEX NOT AVAILABLE] ">> \o text
    ELSE IF Raises("pii_codex.redact", text)
    THEN <<"[PII-CODEX ERROR: ">> \o ErrMsg \o <<"] ">> \o text
    ELSE CodexRedact(text)

\* Faulty variant: the analyzer/anonymizer runs before the scrubber.
RedactLine_PresidioFirst(line_content) ==
    redact_with_pii_codex(redact_with_scrubadub(redact_with_presidio(line_content)))

\* "Apply all libraries sequentially"
RedactLine(line_content) ==
    redact_with_pii_codex(redact_with_presidio(redact_with_scrubadub(line_content)))

Call(function, n, text) == [lib |-> function, line |-> n, text |-> text]

\* The library calls one non-empty line makes, in order.  The anonymizer is
\* called whenever the analyzer returned detections; either call may raise.
LibraryCalls(n, line_content) ==
    LET t1 == redact_with_scrubadub(line_content)
        t2 == redact_with_presidio(t1)
    IN <<Call("scrubadub.clean", n, line_content)>>
       \o (IF presidio_ready THEN <<Call("presidio.analyze", n, t1)>> ELSE <<>>)
       \o (IF presidio_ready /\ ~Raises("presidio.analyze", t1)
              /\ PresidioAnalyze(t1) # {}
           THEN <<Call("presidio.anonymize", n, t1)>> ELSE <<>>)
       \o (IF pii_codex_ready THEN <<Call("pii_codex.redact", n, t2)>> ELSE <<>>)

\* Faulty variant: the redacted line is written without its newline.
Written_NoNewline(line_content) ==
    IF line_content = <<>> THEN <<NL>> ELSE RedactLine(line_content)

\* What one loop iteration hands to outfile.write.
Written(line_content) ==
    IF line_content = <<>> THEN <<NL>> ELSE RedactLine(line_content) \o <<NL>>

\* Faulty variant: the counter is incremented before the empty-line test.
Counted_All(line_content) == 1

\* What one loop iteration adds to line_count.
Counted(line_content) == IF line_content = <<>> THEN 0 ELSE 1

\* The library calls of one loop iteration.
LineCalls(n, line_content) ==
    IF line_content = <<>> THEN <<>> ELSE LibraryCalls(n, line_content)

Msg(text, num) == [text |-> text, num |-> num]

\* The progress notice of one loop iteration.
Progress(n, line_content) ==
    IF line_content # <<>> /\ n % ProgressEvery = 0
    THEN <<Msg("  Processed lines...", n)>> ELSE <<>>

\* The open output file: what is on disk and what its two buffers hold.
Handle ==
    [file |-> outfile, fileBytes |-> outfileBytes, raw |-> rawbuf,
     rawBytes |-> rawbufBytes, buf |-> outbuf, bufBytes |-> outbufBytes,
     raised |-> FALSE]

\* The most tokens of data, between lo and hi, that fit into room bytes.
RECURSIVE FitLen(_, _, _, _)
FitLen(data, room, lo, hi) ==
    IF lo >= hi THEN lo
    ELSE LET mid == (lo + hi + 1) \div 2
         IN IF BytesIn(data, 1, mid) <= room
            THEN FitLen(data, room, mid, hi)
            ELSE FitLen(data, room, lo, mid - 1)
Fit(data, room) ==
    FitLen(data, room, 0, IF room < Len(data) THEN room ELSE Len(data))

\* What a disk with room bytes left stores of data that does not fit: the
\* leading bytes, which may end inside a token.
Stored(data, room) ==
    LET fit == Fit(data, room)
    IN SubSeq(data, 1, fit)
       \o (IF BytesIn(data, 1, fit) < room THEN <<Partial>> ELSE <<>>)
\* The tokens of data not wholly stored.
Unsent(data, room) == SubSeq(data, Fit(data, room) + 1, Len(data))

\* The byte layer sends its buffer to the disk; it raises when the disk has
\* no room for all of it.
RawFlush(h) ==
    IF h.rawBytes = 0 THEN h
    ELSE IF h.fileBytes + h.rawBytes <= diskSpace
    THEN [h EXCEPT !.file = @ \o h.raw, !.fileBytes = @ + h.rawBytes,
                   !.raw = <<>>, !.rawBytes = 0]
    ELSE [h EXCEPT !.file = @ \o Stored(h.raw, diskSpace - h.fileBytes),
                   !.fileBytes = diskSpace,
                   !.raw = Unsent(h.raw, diskSpace - h.fileBytes),
                   !.rawBytes = @ - (diskSpace - h.fileBytes),
                   !.raised = TRUE]

\* The byte layer takes data from the text layer.  Data that fits into its
\* buffer is kept there.  Otherwise the buffer is sent to the disk first;
\* then data no longer than the buffer is kept, and longer data is written
\* to the disk at once: when the disk takes only a part, what is left is
\* kept if it fits into the buffer, and the write raises if it does not.
RawWrite(h, data, bytes) ==
    IF bytes <= BlockBytes - h.rawBytes
    THEN [h EXCEPT !.raw = @ \o data, !.rawBytes = @ + bytes]
    ELSE LET f == RawFlush(h)
             room == diskSpace - f.fileBytes
         IN IF f.raised THEN f
            ELSE IF bytes <= BlockBytes
            THEN [f EXCEPT !.raw = data, !.rawBytes = bytes]
            ELSE IF bytes <= room
            THEN [f EXCEPT !.file = @ \o data, !.fileBytes = @ + bytes]
            ELSE IF room = 0 \/ bytes - room > BlockBytes
            THEN [f EXCEPT !.file = @ \o Stored(data, room),
                           !.fileBytes = diskSpace, !.raised = TRUE]
            ELSE [f EXCEPT !.file = @ \o Stored(data, room),
                           !.fileBytes = diskSpace,
                           !.raw = Unsent(data, room), !.rawBytes = bytes - room]

\* The text layer hands what it holds to the byte layer.
TextFlush(h) ==
    IF h.bufBytes = 0 THEN h
    ELSE RawWrite([h EXCEPT !.buf = <<>>, !.bufBytes = 0], h.buf, h.bufBytes)

\* outfile.write(text).  Text that would take the text layer over
\* BufferBytes sends what the layer holds on first (when that raises, the
\* text is not taken); a layer that has reached BufferBytes is sent on whole.
TextWrite(h, text) ==
    LET first == IF h.bufBytes > 0 /\ h.bufBytes + Bytes(text) > BufferBytes
                 THEN TextFlush(h) ELSE h
        taken == [first EXCEPT !.buf = @ \o text, !.bufBytes = @ + Bytes(text)]
    IN IF first.raised THEN first
       ELSE IF taken.bufBytes >= BufferBytes THEN TextFlush(taken)
       ELSE taken

\* Closing the file: the text layer hands on what it holds, then the byte
\* layer sends its buffer to the disk, also when the first step raised.
Close(h) ==
    LET flushed == TextFlush([h EXCEPT !.raised = FALSE])
        closed == RawFlush([flushed EXCEPT !.raised = FALSE])
    IN [closed EXCEPT !.raised = flushed.raised \/ closed.raised]

----------------------------------------------------------------------------
(* Initial states *)

InitRun ==
    /\ pc = "import"
    /\ scrubadub_ready = FALSE
    /\ presidio_ready = FALSE
    /\ pii_codex_ready = FALSE
    /\ infileOpen = FALSE
    /\ outfileOpen = FALSE
    /\ rawbuf = <<>>
    /\ rawbufBytes = 0
    /\ outbuf = <<>>
    /\ outbufBytes = 0
    /\ writes = <<>>
    /\ inpos = 0
    /\ line_num = 0
    /\ line_count = 0
    /\ stdout = <<>>
    /\ calls = <<>>
    /\ opens = <<>>
    /\ fault = "none"
    /\ ret = "None"
    /\ exitCode = -1

\* Which library functions raise.  A text on which the analyzer raises never
\* reaches the anonymizer, so a fragile anonymizer next to a fragile analyzer
\* adds no behaviour.
Faults ==
    {f \in [Functions -> BOOLEAN] : ~(f["presidio.analyze"] /\ f["presidio.anonymize"])}

\* The output path names the input file, or another file that may exist.
NoFaults == [f \in Functions |-> FALSE]

\* Disks with no room, with room for part of a line or for a line or two, and
\* with room for everything.
Roomy == 1000000
DiskSpaces == {0, 5, 40, Roomy}

\* The faults are drawn where they can act: a library raises only on a line
\* holding "!", and the disk is written only when lines are read, which none
\* is when the input is missing, empty, or emptied by opening it as the
\* output.
LinesRead == fileExists /\ ~sameFile /\ fileContent # <<>>

InitOutput ==
    /\ outOnDisk \in (IF sameFile THEN {fileExists} ELSE BOOLEAN)
    /\ outfile = IF sameFile THEN fileContent
                 ELSE IF outOnDisk THEN <<"old", NL>> ELSE <<>>
    /\ outfileBytes = Bytes(outfile)

Init ==
    /\ InitRun
    /\ fileExists \in BOOLEAN
    /\ existsRaises \in (IF fileExists THEN {FALSE} ELSE BOOLEAN)
    /\ fileContent \in (IF fileExists THEN Texts(MaxLen) ELSE {<<>>})
    /\ sameFile \in BOOLEAN
    /\ fragile \in (IF LinesRead /\ "!" \in Range(fileContent) THEN Faults ELSE {NoFaults})
    /\ diskSpace \in (IF LinesRead THEN DiskSpaces ELSE {Roomy})
    /\ InitOutput

----------------------------------------------------------------------------
(* Module level: the imports *)

ImportLibraries ==
    /\ pc = "import"
    /\ pc' = "main"
    /\ UNCHANGED <<envVars, flagVars, fileVars, loopVars, stdout, fault, ret, exitCode>>

ImportError ==
    /\ pc = "import"
    /\ \E text \in {"Please install scrubadub: pip install scrubadub",
                    "Please install presidio: pip install presidio-analyzer presidio-anonymizer",
                    "Please install pii-codex: pip install pii-codex"} :
         stdout' = Append(stdout, Msg(text, -1))
    /\ exitCode' = 1
    /\ pc' = "exit"
    /\ UNCHANGED <<envVars, flagVars, fileVars, loopVars, fault, ret>>

----------------------------------------------------------------------------
(* main, up to the call of process_file *)

\* parser.parse_args() returns: the command line named an input file.
ParseArgs ==
    /\ pc = "main"
    /\ pc' = "parsed"
    /\ UNCHANGED <<envVars, flagVars, fileVars, loopVars, stdout, fault, ret, exitCode>>

\* parser.parse_args() on -h/--help: argparse writes the help text itself
\* (no print call of the script) and exits with status 0.
ParseArgsHelp ==
    /\ pc = "main"
    /\ exitCode' = 0
    /\ pc' = "exit"
    /\ UNCHANGED <<envVars, flagVars, fileVars, loopVars, stdout, fault, ret>>

\* parser.parse_args() on a command line that does not parse: argparse
\* writes the usage error to stderr and exits with status 2.
ParseArgsError ==
    /\ pc = "main"
    /\ exitCode' = 2
    /\ pc' = "exit"
    /\ UNCHANGED <<envVars, flagVars, fileVars, loopVars, stdout, fault, ret>>

\* Faulty variant: an initialization failure is swallowed without a warning.
Construct_Silent ==
    /\ pc = "parsed"
    /\ \E presidio_ok \in BOOLEAN, codex_ok \in BOOLEAN :
         /\ scrubadub_ready' = TRUE
         /\ presidio_ready' = presidio_ok
         /\ pii_codex_ready' = codex_ok
         /\ stdout' = stdout
              \o <<Msg("Initializing redaction libraries...", -1), Msg("", -1)>>
    /\ pc' = "ready"
    /\ UNCHANGED <<envVars, fileVars, loopVars, fault, ret, exitCode>>

\* MultiRedactor(), between main's two prints.
Construct ==
    /\ pc = "parsed"
    /\ \E presidio_ok \in BOOLEAN, codex_ok \in BOOLEAN :
         /\ scrubadub_ready' = TRUE
         /\ presidio_ready' = presidio_ok
         /\ pii_codex_ready' = codex_ok
         /\ stdout' = stdout
              \o <<Msg("Initializing redaction libraries...", -1)>>
              \o (IF presidio_ok THEN <<>>
                  ELSE <<Msg("Warning: Presidio initialization failed", -1)>>)
              \o (IF codex_ok THEN <<>>
                  ELSE <<Msg("Warning: PII-Codex initialization failed", -1)>>)
              \o <<Msg("", -1)>>
    /\ pc' = "ready"
    /\ UNCHANGED <<envVars, fileVars, loopVars, fault, ret, exitCode>>

----------------------------------------------------------------------------
(* process_file *)

\* Faulty variant: the files are opened without a with statement, so the
\* except clause returns with the handles still open.
Failed_LeaksHandles(why, h) ==
    /\ fault' = why
    /\ stdout' = Append(stdout, Msg("Error processing file", -1))
    /\ UNCHANGED <<infileOpen, outfileOpen>>
    /\ outfile' = Close(h).file
    /\ outfileBytes' = Close(h).fileBytes
    /\ rawbuf' = <<>>
    /\ rawbufBytes' = 0
    /\ outbuf' = <<>>
    /\ outbufBytes' = 0
    /\ ret' = "False"
    /\ pc' = "returned"

\* An exception leaves the with block and reaches the except clause.  The
\* with statement closes what was opened; closing the output, left as h,
\* sends what its buffers hold to the disk, which stores what it has room
\* for.  Then: print, return False.
Failed(why, h) ==
    /\ fault' = why
    /\ stdout' = Append(stdout, Msg("Error processing file", -1))
    /\ infileOpen' = FALSE
    /\ outfileOpen' = FALSE
    /\ outfile' = Close(h).file
    /\ outfileBytes' = Close(h).fileBytes
    /\ rawbuf' = <<>>
    /\ rawbufBytes' = 0
    /\ outbuf' = <<>>
    /\ outbufBytes' = 0
    /\ ret' = "False"
    /\ pc' = "returned"

\* Faulty variant: the output is opened before the input is looked for.
ProcessFileMissing_OpensOutputFirst ==
    /\ pc = "ready"
    /\ ~existsRaises
    /\ ~fileExists
    /\ outOnDisk' = TRUE
    /\ outfile' = <<>>
    /\ outfileBytes' = 0
    /\ opens' = Append(opens, "output")
    /\ fault' = "missing"
    /\ stdout' = Append(stdout, Msg("Error: Input file not found.", -1))
    /\ ret' = "False"
    /\ pc' = "returned"
    /\ UNCHANGED <<envVars, flagVars, infileOpen, outfileOpen, bufVars, writes,
                   loopVars, exitCode>>

ProcessFileMissing ==
    /\ pc = "ready"
    /\ ~existsRaises
    /\ ~fileExists
    /\ fault' = "missing"
    /\ stdout' = Append(stdout, Msg("Error: Input file not found.", -1))
    /\ ret' = "False"
    /\ pc' = "returned"
    /\ UNCHANGED <<envVars, flagVars, fileVars, loopVars, exitCode>>

\* input_path.exists() raises OSError for a name the OS rejects (too long):
\* the exception is outside the try, process_file returns nothing and the
\* script ends with a traceback and exit status 1.
ProcessFileExistsError ==
    /\ pc = "ready"
    /\ existsRaises
    /\ fault' = "exists"
    /\ exitCode' = 1
    /\ pc' = "exit"
    /\ UNCHANGED <<envVars, flagVars, fileVars, loopVars, stdout, ret>>

ProcessFileStart ==
    /\ pc = "ready"
    /\ fileExists
    /\ stdout' = stdout \o <<Msg("Processing file:", -1), Msg("Output file:", -1),
                              Msg("", -1)>>
    /\ pc' = "open_in"
    /\ UNCHANGED <<envVars, flagVars, fileVars, loopVars, fault, ret, exitCode>>

OpenInput ==
    /\ pc = "open_in"
    /\ infileOpen' = TRUE
    /\ opens' = Append(opens, "input")
    /\ pc' = "open_out"
    /\ UNCHANGED <<envVars, flagVars, outfileOpen, outOnDisk, outfile, outfileBytes,
                   bufVars, writes, loopVars, stdout, fault, ret, exitCode>>

OpenInputError ==
    /\ pc = "open_in"
    /\ Failed("open_in", Handle)
    /\ UNCHANGED <<envVars, flagVars, outOnDisk, writes, opens, loopVars, exitCode>>

\* open(output_path, "w") creates or truncates the file; when the path names
\* the input file, that is the file the open input handle reads.
OpenOutput ==
    /\ pc = "open_out"
    /\ outfileOpen' = TRUE
    /\ outOnDisk' = TRUE
    /\ outfile' = <<>>
    /\ outfileBytes' = 0
    /\ fileContent' = IF sameFile THEN <<>> ELSE fileContent
    /\ opens' = Append(opens, "output")
    /\ pc' = "loop"
    /\ UNCHANGED <<fileExists, existsRaises, sameFile, fragile, diskSpace, flagVars,
                   infileOpen, bufVars,
                   writes, loopVars, stdout, fault, ret, exitCode>>

OpenOutputError ==
    /\ pc = "open_out"
    /\ Failed("open_out", Handle)
    /\ UNCHANGED <<envVars, flagVars, outOnDisk, writes, opens, loopVars, exitCode>>

\* One iteration of the for loop that runs to its end.
ProcessLine ==
    /\ pc = "loop"
    /\ inpos < Len(fileContent)
    /\ LET line == ReadLine(fileContent, inpos)
           n == line_num + 1
           line_content == RStripNL(line)
           written == TextWrite(Handle, Written(line_content))
       IN /\ ~written.raised
          /\ inpos' = inpos + Len(line)
          /\ line_num' = n
          /\ line_count' = line_count + Counted(line_content)
          /\ calls' = calls \o LineCalls(n, line_content)
          /\ writes' = Append(writes, Written(line_content))
          /\ outfile' = written.file
          /\ outfileBytes' = written.fileBytes
          /\ rawbuf' = written.raw
          /\ rawbufBytes' = written.rawBytes
          /\ outbuf' = written.buf
          /\ outbufBytes' = written.bufBytes
          /\ stdout' = stdout \o Progress(n, line_content)
    /\ UNCHANGED <<envVars, flagVars, infileOpen, outfileOpen, outOnDisk, opens,
                   pc, fault, ret, exitCode>>

\* The iteration's read raises.
ReadError ==
    /\ pc = "loop"
    /\ Failed("read", Handle)
    /\ UNCHANGED <<envVars, flagVars, outOnDisk, writes, opens, loopVars, exitCode>>

\* Faulty variant: the write error is caught inside the loop, which goes on
\* with the next line.
WriteError_Resumes ==
    /\ pc = "loop"
    /\ inpos < Len(fileContent)
    /\ LET line == ReadLine(fileContent, inpos)
           n == line_num + 1
           line_content == RStripNL(line)
       IN /\ inpos' = inpos + Len(line)
          /\ line_num' = n
          /\ line_count' = line_count + Counted(line_content)
          /\ calls' = calls \o LineCalls(n, line_content)
          /\ writes' = Append(writes, Written(line_content))
    /\ fault' = "write"
    /\ stdout' = Append(stdout, Msg("Error processing file", -1))
    /\ UNCHANGED <<envVars, flagVars, infileOpen, outfileOpen, outOnDisk, outfile,
                   outfileBytes, bufVars, opens, pc, ret, exitCode>>

\* The iteration's outfile.write raises: the line was read and, when it is
\* not empty, counted and redacted.  Either the write sends text to a disk
\* that has no room for it, or the redacted text cannot be encoded and is
\* not taken.
WriteError ==
    /\ pc = "loop"
    /\ inpos < Len(fileContent)
    /\ LET line == ReadLine(fileContent, inpos)
           n == line_num + 1
           line_content == RStripNL(line)
       IN /\ inpos' = inpos + Len(line)
          /\ line_num' = n
          /\ line_count' = line_count + Counted(line_content)
          /\ calls' = calls \o LineCalls(n, line_content)
          /\ writes' = Append(writes, Written(line_content))
          /\ \/ /\ TextWrite(Handle, Written(line_content)).raised
                /\ Failed("write", TextWrite(Handle, Written(line_content)))
             \/ /\ line_content # <<>>
                /\ Failed("write", Handle)
    /\ UNCHANGED <<envVars, flagVars, outOnDisk, opens, exitCode>>

\* Faulty variant: the notice reports the raw line number, not the counter.
Finish_ReportsLineNum ==
    /\ pc = "loop"
    /\ inpos = Len(fileContent)
    /\ ~Close(Handle).raised
    /\ stdout' = Append(stdout, Msg("Successfully processed non-empty lines.", line_num))
    /\ infileOpen' = FALSE
    /\ outfileOpen' = FALSE
    /\ outfile' = Close(Handle).file
    /\ outfileBytes' = Close(Handle).fileBytes
    /\ rawbuf' = <<>>
    /\ rawbufBytes' = 0
    /\ outbuf' = <<>>
    /\ outbufBytes' = 0
    /\ ret' = "True"
    /\ pc' = "returned"
    /\ UNCHANGED <<envVars, flagVars, outOnDisk, writes, opens, loopVars, fault,
                   exitCode>>

\* The iteration is exhausted: print the count, return True; leaving the with
\* block closes both files, which stores the text the buffers hold.
Finish ==
    /\ pc = "loop"
    /\ inpos = Len(fileContent)
    /\ ~Close(Handle).raised
    /\ stdout' = Append(stdout, Msg("Successfully processed non-empty lines.", line_count))
    /\ infileOpen' = FALSE
    /\ outfileOpen' = FALSE
    /\ outfile' = Close(Handle).file
    /\ outfileBytes' = Close(Handle).fileBytes
    /\ rawbuf' = <<>>
    /\ rawbufBytes' = 0
    /\ outbuf' = <<>>
    /\ outbufBytes' = 0
    /\ ret' = "True"
    /\ pc' = "returned"
    /\ UNCHANGED <<envVars, flagVars, outOnDisk, writes, opens, loopVars, fault,
                   exitCode>>

\* The iteration is exhausted and the count printed, but the disk has no
\* room for the text the buffers hold and closing the output raises:
\* the except clause prints the error and process_file returns False.
FinishCloseError ==
    /\ pc = "loop"
    /\ inpos = Len(fileContent)
    /\ Close(Handle).raised
    /\ stdout' = stdout
         \o <<Msg("Successfully processed non-empty lines.", line_count),
              Msg("Error processing file", -1)>>
    /\ infileOpen' = FALSE
    /\ outfileOpen' = FALSE
    /\ outfile' = Close(Handle).file
    /\ outfileBytes' = Close(Handle).fileBytes
    /\ rawbuf' = <<>>
    /\ rawbufBytes' = 0
    /\ outbuf' = <<>>
    /\ outbufBytes' = 0
    /\ fault' = "close"
    /\ ret' = "False"
    /\ pc' = "returned"
    /\ UNCHANGED <<envVars, flagVars, outOnDisk, writes, opens, loopVars, exitCode>>

----------------------------------------------------------------------------
(* main, after process_file returned *)

MainExit ==
    /\ pc = "returned"
    /\ IF ret = "True"
       THEN /\ stdout' = stdout \o <<Msg("Redaction complete!", -1),
                                     Msg("Note: Always manually review the output file", -1)>>
            /\ exitCode' = 0
       ELSE /\ stdout' = stdout
            /\ exitCode' = 1
    /\ pc' = "exit"
    /\ UNCHANGED <<envVars, flagVars, fileVars, loopVars, fault, ret>>

----------------------------------------------------------------------------

Next ==
    \/ ImportLibraries
    \/ ImportError
    \/ ParseArgs
    \/ ParseArgsHelp
    \/ ParseArgsError
    \/ Construct
    \/ ProcessFileMissing
    \/ ProcessFileExistsError
    \/ ProcessFileStart
    \/ OpenInput
    \/ OpenInputError
    \/ OpenOutput
    \/ OpenOutputError
    \/ ProcessLine
    \/ ReadError
    \/ WriteError
    \/ Finish
    \/ FinishCloseError
    \/ MainExit

Spec == Init /\ [][Next]_vars

\* Long inputs: BigLines lines, blank at some of the lines the progress
\* notice is about.
ProgressBlanks == {ProgressEvery, 2 * ProgressEvery, ProgressEvery + 37}

\* Disks with no room, with room for some lines, and with room for all.
ProgressDiskSpaces == {0, 100, Roomy}

InitProgress ==
    /\ InitRun
    /\ fileExists \in BOOLEAN
    /\ existsRaises \in (IF fileExists THEN {FALSE} ELSE BOOLEAN)
    /\ diskSpace \in (IF fileExists THEN ProgressDiskSpaces ELSE {Roomy})
    /\ fileContent \in (IF fileExists
                        THEN {LongInput(BigLines, B) : B \in SUBSET ProgressBlanks}
                        ELSE {<<>>})
    /\ sameFile = FALSE
    /\ fragile = NoFaults
    /\ InitOutput

SpecProgress == InitProgress /\ [][Next]_vars

\* Long lines: up to MaxBig tokens of stretches of 3000 bytes and newlines,
\* which fill the buffers of the output file, on disks with no room, with
\* room for part of what a full buffer holds, and with room for all.
BigTexts(n) == UNION {[1..k -> {"t", NL}] : k \in 0..n}
BigDiskSpaces == {0, 1000, 5000, 9000, Roomy}

InitDisk ==
    /\ InitRun
    /\ fileExists \in BOOLEAN
    /\ existsRaises \in (IF fileExists THEN {FALSE} ELSE BOOLEAN)
    /\ fileContent \in (IF fileExists THEN BigTexts(MaxBig) ELSE {<<>>})
    /\ sameFile = FALSE
    /\ fragile = NoFaults
    /\ diskSpace \in (IF LinesRead THEN BigDiskSpaces ELSE {Roomy})
    /\ InitOutput

SpecDisk == InitDisk /\ [][Next]_vars

----------------------------------------------------------------------------
(* The vocabulary of the properties: lines of a text, counted by its        *)
(* newlines, and the text each line is expected to turn into.              *)

LineEnds(text) ==
    {i \in 1..Len(text) : text[i] = NL} \cup (IF text = <<>> THEN {} ELSE {Len(text)})
NumLines(text) == Cardinality(LineEnds(text))
\* The lines of a text, each with its newline when it has one.
RECURSIVE Lines(_)
Lines(text) ==
    IF text = <<>> THEN <<>>
    ELSE LET first == Min(LineEnds(text))
         IN <<SubSeq(text, 1, first)>> \o Lines(SubSeq(text, first + 1, Len(text)))
Content(line) ==
    IF line # <<>> /\ line[Len(line)] = NL THEN SubSeq(line, 1, Len(line) - 1) ELSE line
\* The lines of the input file as the open input handle reads them, without
\* their newlines.
InputLines == LET lines == Lines(fileContent) IN [k \in 1..Len(lines) |-> Content(lines[k])]
NonEmpty(lines) == Cardinality({k \in 1..Len(lines) : lines[k] # <<>>})
RECURSIVE Flat(_)
Flat(texts) == IF texts = <<>> THEN <<>> ELSE Head(texts) \o Flat(Tail(texts))
IsPrefix(a, b) == Len(a) <= Len(b) /\ SubSeq(b, 1, Len(a)) = a
\* The whole tokens of a text on disk.
Whole(text) ==
    IF text # <<>> /\ text[Len(text)] = Partial
    THEN SubSeq(text, 1, Len(text) - 1) ELSE text

Constructed == pc \notin {"import", "main", "parsed"} /\ scrubadub_ready
Returned == pc \in {"returned", "exit"} /\ ret # "None"
Succeeded == Returned /\ ret = "True"

Detected(t) == PresidioAnonymize(t, PresidioAnalyze(t))

\* One stage of the chain as the specification words it: the placeholder when
\* the capability is unavailable, the error tag when its call raises, its
\* result otherwise.
Stage(ready, raises, unavailable, error, f(_), t) ==
    IF ~ready THEN <<unavailable>> \o t
    ELSE IF raises THEN <<error>> \o ErrMsg \o <<"] ">> \o t
    ELSE f(t)

Chain(L) ==
    LET poison(t) == "!" \in Range(t)
        t1 == Stage(TRUE, fragile["scrubadub.clean"] /\ poison(L),
                    "[SCRUBADUB NOT AVAILABLE] ", "[SCRUBADUB ERROR: ",
                    ScrubadubClean, L)
        t2 == Stage(presidio_ready,
                    poison(t1) /\ \/ fragile["presidio.analyze"]
                                  \/ /\ fragile["presidio.anonymize"]
                                     /\ \E i \in 1..Len(t1) : t1[i] \in {"e", "n"},
                    "[PRESIDIO NOT AVAILABLE] ", "[PRESIDIO ERROR: ", Detected, t1)
    IN Stage(pii_codex_ready, fragile["pii_codex.redact"] /\ poison(t2),
             "[PII-CODEX NOT AVAILABLE] ", "[PII-CODEX ERROR: ", CodexRedact, t2)

ExpectedLine(L) == IF L = <<>> THEN <<NL>> ELSE Chain(L) \o <<NL>>

\* The output lines expected for the first n lines of the input.
Expected(n) == LET input == InputLines IN [k \in 1..n |-> ExpectedLine(input[k])]

\* The output file holds exactly the lines expected for input lines 1..n.
OutputMirrors(n) == Lines(outfile) = Expected(n)

CanRaise(L) == "!" \in Range(L) /\ \E f \in Functions : fragile[f]

----------------------------------------------------------------------------
(* Properties *)

\* C1: every non-empty line written is the scrubber's result passed to the
\* analyzer/anonymizer and that result passed to the third processor; an
\* unavailable capability puts its "[<NAME> NOT AVAILABLE] " placeholder
\* before the text it received and the chain goes on.  (Lines on which no
\* call raises.)
C1_SequentialComposition ==
    LET input == InputLines IN
    \A k \in 1..Len(writes) :
      LET L == input[k]
          c1 == ScrubadubClean(L)
          c2 == IF presidio_ready THEN Detected(c1)
                ELSE <<"[PRESIDIO NOT AVAILABLE] ">> \o c1
          c3 == IF pii_codex_ready THEN CodexRedact(c2)
                ELSE <<"[PII-CODEX NOT AVAILABLE] ">> \o c2
      IN (L # <<>> /\ ~CanRaise(L)) => writes[k] = c3 \o <<NL>>

\* The run succeeded with the analyzer/anonymizer unavailable, and the line
\* "e n" came out as placeholder, scrubbed e-mail and redacted name.
C1_Witness ==
    /\ Succeeded
    /\ ~presidio_ready /\ pii_codex_ready
    /\ fileContent = <<"e", "n", NL>>
    /\ outfile = <<"[PRESIDIO NOT AVAILABLE] ", "{{EMAIL}}", "***", NL>>

\* C2: a call that raises does not abort the run: the stage's result is the
\* error tag followed by the text the stage received, the later stages run on
\* it, the line is written, the later lines are processed; a run fails only
\* on a file-level error.
C2_CapabilityErrorsContained ==
    /\ LET input == InputLines
       IN \A k \in 1..Len(writes) :
            (input[k] # <<>> /\ CanRaise(input[k]))
              => writes[k] = Chain(input[k]) \o <<NL>>
    /\ Returned => (ret = "False" <=> fault # "none")
    /\ (Returned /\ fault = "none") =>
         /\ Len(writes) = NumLines(fileContent)
         /\ NumLines(outfile) = NumLines(fileContent)

\* The scrubber raised on line 1, the other stages ran on the tagged text,
\* line 2 was processed and the run succeeded.
C2_Witness ==
    /\ Succeeded
    /\ fragile = [f \in Functions |-> f = "scrubadub.clean"]
    /\ presidio_ready /\ pii_codex_ready
    /\ fileContent = <<"!", NL, "e">>
    /\ outfile = <<"[SCRUBADUB ERROR: ", "cannot parse ", "<PERSON>", "] ", "!", NL,
                   "{{EMAIL}}", NL>>

\* C3: after a successful run the output has as many lines as the input,
\* output line N is the one produced from input line N, and every output
\* line ends with a newline, the one made from an unterminated last line too.
C3_LineForLine ==
    Succeeded =>
      /\ NumLines(outfile) = NumLines(fileContent)
      /\ OutputMirrors(NumLines(fileContent))
      /\ \A i \in LineEnds(outfile) : outfile[i] = NL

\* A successful run over two lines, the last without a trailing newline.
C3_Witness ==
    /\ Succeeded
    /\ NumLines(fileContent) = 2
    /\ fileContent[Len(fileContent)] # NL
    /\ NumLines(outfile) = 2
    /\ outfile[Len(outfile)] = NL

\* C4: an empty line is written as a single newline at its position, is not
\* counted, and no library is called for it.
C4_EmptyLines ==
    LET input == InputLines
        output == Lines(outfile)
    IN /\ line_count = (IF line_num = 0 THEN 0 ELSE NonEmpty(SubSeq(input, 1, line_num)))
       /\ \A i \in 1..Len(calls) : calls[i].line <= line_num
       /\ \A k \in 1..line_num :
            input[k] = <<>> =>
              /\ k <= Len(writes) => writes[k] = <<NL>>
              /\ (Succeeded /\ k <= Len(output)) => output[k] = <<NL>>
              /\ \A i \in 1..Len(calls) : calls[i].line # k

\* A successful run over an empty line followed by a non-empty one.
C4_Witness ==
    /\ Succeeded
    /\ fileContent = <<NL, "e", NL>>
    /\ line_num = 2 /\ line_count = 1
    /\ outfile[1] = NL
    /\ calls # <<>>

ProgressLines == {stdout[i].num : i \in {j \in 1..Len(stdout) : stdout[j].text = "  Processed lines..."}}

\* C5: in a successful run the progress notice is emitted at exactly the
\* lines whose 1-based number is a multiple of 100, blank or not.
C5_ProgressEveryHundredth ==
    Succeeded => ProgressLines = {k \in 1..line_num : k % ProgressEvery = 0}

UntouchedOutput ==
    /\ opens = <<>>
    /\ writes = <<>>
    /\ outfile = (IF sameFile THEN fileContent
                  ELSE IF outOnDisk THEN <<"old", NL>> ELSE <<>>)

\* C6 as stated: with the input missing process_file fails without opening
\* the output and without calling a library, and the exit code is 1; exit
\* code 0 only after process_file succeeded.
C6_MissingInput ==
    /\ (~fileExists /\ Returned) => (ret = "False" /\ UntouchedOutput /\ calls = <<>>)
    /\ (~fileExists /\ pc = "exit") => exitCode = 1
    /\ exitCode = 0 => ret = "True"

\* C6 amended: called with a missing input, process_file fails without
\* opening the output and without calling a library: it prints the notice
\* and returns False, or, for a path name the operating system rejects, its
\* existence test raises and ends the script; either way the process exits
\* with 1.  Exit code 0 is produced only after process_file succeeded, or by
\* the argument parser's help exit, before anything was constructed, opened
\* or processed.
C6_MissingInputFails ==
    /\ (~fileExists /\ Constructed /\ pc \in {"returned", "exit"}) =>
         /\ UntouchedOutput /\ calls = <<>>
         /\ IF existsRaises
            THEN ret = "None" /\ fault = "exists" /\ stdout[Len(stdout)].text = ""
            ELSE ret = "False" /\ fault = "missing"
                 /\ stdout[Len(stdout)].text = "Error: Input file not found."
         /\ pc = "exit" => exitCode = 1
    /\ exitCode = 0 =>
         \/ ret = "True"
         \/ /\ ret = "None" /\ ~scrubadub_ready
            /\ stdout = <<>> /\ opens = <<>> /\ calls = <<>>

\* The process has exited after process_file found the input missing.
C6_Witness ==
    /\ ~fileExists
    /\ pc = "exit"
    /\ fault = "missing"
    /\ exitCode = 1

\* C7 as stated: after a read or write error on line k the output holds
\* exactly the lines of 1..k-1, nothing more is read, redacted or written,
\* process_file returned False and the run can only exit with code 1.
C7_IOErrorAborts ==
    fault \in {"read", "write"} =>
      LET k == IF fault = "read" THEN line_num + 1 ELSE line_num
      IN /\ pc \in {"returned", "exit"}
         /\ ret = "False"
         /\ exitCode = (IF pc = "exit" THEN 1 ELSE -1)
         /\ OutputMirrors(k - 1)
         /\ \A i \in 1..Len(calls) : calls[i].line <= line_num

\* The disk with room for `room` bytes kept exactly the leading part of text
\* it had room for: the tokens that fit, and a part of the next one when
\* room is left over.
IsCut(out, text, room) ==
    LET whole == Whole(out)
    IN /\ out \in {whole, whole \o <<Partial>>}
       /\ IsPrefix(whole, text)
       /\ Len(whole) < Len(text)
       /\ Bytes(whole) <= room
       /\ Bytes(whole) + ByteLen(text[Len(whole) + 1]) > room
       /\ (out # whole) <=> (Bytes(whole) < room)

\* C7 amended: after a read or write error on line k, or an error when the
\* output is closed after the last line, no line after k is read, redacted or
\* written, process_file returned False and the run can only exit with code
\* 1.  The output holds either exactly the text written for lines 1..k-1,
\* or, when the disk has no room for the text written for lines 1..k,
\* exactly the leading part of that text the disk had room for, which may
\* end inside a line and may reach into line k; nothing is left in the
\* buffers.
C7_IOErrorKeepsPrefix ==
    fault \in {"read", "write", "close"} =>
      /\ pc \in {"returned", "exit"}
      /\ ret = "False"
      /\ exitCode = (IF pc = "exit" THEN 1 ELSE -1)
      /\ Len(writes) = line_num
      /\ writes = Expected(line_num)
      /\ LET all == Flat(writes)
             accepted == Flat(SubSeq(writes, 1,
                              IF fault = "write" THEN Len(writes) - 1 ELSE Len(writes)))
         IN \/ /\ fault # "close"
               /\ Bytes(accepted) <= diskSpace
               /\ outfile = accepted
               /\ outfileBytes = Bytes(accepted)
            \/ /\ Bytes(all) > diskSpace
               /\ IsCut(outfile, all, diskSpace)
               /\ outfileBytes = diskSpace
      /\ outbuf = <<>> /\ rawbuf = <<>>
      /\ ~infileOpen /\ ~outfileOpen
      /\ inpos = Len(Flat(SubSeq(Lines(fileContent), 1, line_num)))
      /\ \A i \in 1..Len(calls) : calls[i].line <= line_num

\* The write of line 1 of at least 2 filled the buffer and found the disk
\* without room for it: the output holds a part of the text written for
\* line 1 that ends inside a token, line 2 was never read, and the process
\* exited with 1.
C7_Witness ==
    /\ fault = "write"
    /\ pc = "exit" /\ exitCode = 1
    /\ NumLines(fileContent) >= 2
    /\ line_num = 1
    /\ Len(writes) = 1
    /\ Bytes(writes[1]) > BufferBytes
    /\ outfile # <<>>
    /\ outfile[Len(outfile)] = Partial
    /\ Len(outfile) <= Len(writes[1])
    /\ inpos < Len(fileContent)

CapabilityDiagnostics ==
    {i \in 1..Len(stdout) :
        stdout[i].text \in {"Warning: Presidio initialization failed",
                            "Warning: PII-Codex initialization failed",
                            "Warning: capability call failed"}}
InitFailures ==
    (IF presidio_ready THEN 0 ELSE 1) + (IF pii_codex_ready THEN 0 ELSE 1)
RaisedCalls ==
    {i \in 1..Len(calls) : fragile[calls[i].lib] /\ "!" \in Range(calls[i].text)}

\* C8 as stated: every recoverable capability failure, a failed
\* initialization and a call that raises alike, puts a diagnostic line on the
\* operator-facing output.
C8_EveryFailureWarned ==
    Constructed =>
      Cardinality(CapabilityDiagnostics) = InitFailures + Cardinality(RaisedCalls)

\* C8 amended: a capability that fails to initialize puts one warning line on
\* the operator-facing output and its placeholder on every non-empty line
\* written; a call that raises leaves only its error tag in the line written
\* and no line on the operator-facing output.
C8_OnlyInitFailuresWarned ==
    Constructed =>
      /\ Cardinality(CapabilityDiagnostics) = InitFailures
      /\ (~presidio_ready) <=>
           (\E i \in 1..Len(stdout) :
               stdout[i].text = "Warning: Presidio initialization failed")
      /\ (~pii_codex_ready) <=>
           (\E i \in 1..Len(stdout) :
               stdout[i].text = "Warning: PII-Codex initialization failed")
      /\ \A k \in 1..Len(writes) :
           LET out == Range(writes[k])
           IN writes[k] # <<NL>> =>
                /\ ~presidio_ready => "[PRESIDIO NOT AVAILABLE] " \in out
                /\ ~pii_codex_ready => "[PII-CODEX NOT AVAILABLE] " \in out
                /\ \A i \in RaisedCalls :
                     calls[i].line = k =>
                       \E tag \in {"[SCRUBADUB ERROR: ", "[PRESIDIO ERROR: ",
                                   "[PII-CODEX ERROR: "} : tag \in out

\* The analyzer/anonymizer failed to initialize and the third processor
\* raised on a line: one warning on the operator-facing output, both markers
\* in the output line.
C8_Witness ==
    /\ Succeeded
    /\ ~presidio_ready /\ pii_codex_ready
    /\ Cardinality(RaisedCalls) = 1
    /\ Cardinality(CapabilityDiagnostics) = 1
    /\ "[PII-CODEX ERROR: " \in Range(outfile)
    /\ "[PRESIDIO NOT AVAILABLE] " \in Range(outfile)

\* Python's bool is an int: True == 1 and False == 0.
RetAsInt == IF ret = "True" THEN 1 ELSE 0
SuccessNotices ==
    {i \in 1..Len(stdout) : stdout[i].text = "Successfully processed non-empty lines."}

C10_HandlesReleased ==
    /\ pc \in {"returned", "exit"} => (~infileOpen /\ ~outfileOpen)
    /\ infileOpen => pc \in {"open_out", "loop"}
    /\ outfileOpen => (pc = "loop" /\ infileOpen)

\* process_file returned after a write error, both files having been opened.
C10_Witness ==
    /\ pc = "returned"
    /\ fault = "write"
    /\ opens = <<"input", "output">>
    /\ ~infileOpen /\ ~outfileOpen

====
